---- MODULE Spec2Model ----
(***************************************************************************)
(* Adaptive IRT evaluation engine of enterprise-ai-context-demo:           *)
(*   backend/src/core/fluid_evaluation.py   (FluidEvaluator)               *)
(*   benchmarking/ocr_irt_benchmark.py      (OCRIRTBenchmark)              *)
(*                                                                         *)
(* Reals are carried in fixed point, one unit = 1/1000 (Q).  Abilities,    *)
(* difficulties, discriminations, probabilities, informations, standard    *)
(* errors and discrepancies are all integers in these units.               *)
(***************************************************************************)
EXTENDS Integers, Sequences, FiniteSets, TLC

VARIABLES
    program,          \* which script runs: "fluid_evaluation" or "ocr_irt_benchmark"
    test_items,       \* FluidEvaluator.test_items
    abilities,        \* FluidEvaluator.abilities
    response_history, \* FluidEvaluator.response_history
    s_pc,             \* per method: position of its fluid_benchmarking coroutine
    s_args,           \* per method: arguments of the call
    s_i,              \* per method: loop variable i
    s_responses,      \* per method: local list responses
    s_administered,   \* per method: local list administered_items
    s_ability,        \* per method: local current_ability
    s_next,           \* per method: local next_item (index into test_items, 0 = None)
    s_exit,           \* per method: how the loop was left
    s_result,         \* per method: the returned dict
    o_items,          \* OCRIRTBenchmark.items
    o_pc,             \* position of the run_benchmark coroutine
    o_num,            \* argument num_items
    o_sorted,         \* local sorted_items
    o_i,              \* loop variable i
    o_item,           \* local item (index into sorted_items)
    o_details,        \* local details of the last evaluate_ocr_task
    o_responses,      \* local list responses
    o_ability,        \* local current_ability
    o_se,             \* local se
    o_result,         \* the returned dict
    d_calls,          \* number of identify_mislabeled_items calls made
    d_in,             \* arguments of the last identify_mislabeled_items call
    d_before,         \* test_items as they were when that call started
    d_out,            \* list returned by that call (indexes into test_items)
    d_raised,         \* that call raised
    q_fn, q_pool, q_theta, q_used, q_out,  \* one selector call and what it returned
    e_in,             \* responses and mode handed to estimate_ability
    e_out,            \* what the calls of estimate_ability on e_in returned, in order
    p_in,             \* arguments handed to probability_correct
    p_out             \* what the call of probability_correct on p_in returned

fluidVars == <<test_items, abilities, response_history, s_pc, s_args, s_i,
               s_responses, s_administered, s_ability, s_next, s_exit, s_result>>
ocrVars == <<o_items, o_pc, o_num, o_sorted, o_i, o_item, o_details,
             o_responses, o_ability, o_se, o_result>>
detVars == <<d_calls, d_in, d_before, d_out, d_raised>>
selVars == <<q_fn, q_pool, q_theta, q_used, q_out>>
estVars == <<e_in, e_out, p_in, p_out>>
vars == <<program, fluidVars, ocrVars, detVars, selVars, estVars>>

----------------------------------------------------------------------------
(* Bounds of the model *)

MaxPool == 3        \* longest FluidEvaluator pool taken from the test dataset
MaxN == 4           \* largest n_max / num_items
MaxOcrPool == 5     \* longest OCR item list
EarlyPool == 12     \* size of the calibrated pool of the early-stop runs
MaxResp == 2        \* responses handed to one identify_mislabeled_items call
MaxDetCalls == 2    \* identify_mislabeled_items calls in one run

----------------------------------------------------------------------------
(* Fixed-point arithmetic *)

Q == 1000

Abs(x) == IF x < 0 THEN -x ELSE x

Min(a, b) == IF a < b THEN a ELSE b

\* n / d rounded to the nearest integer, d > 0
RoundDiv(n, d) == (2 * n + d) \div (2 * d)

\* floor of the square root of n >= 0
RECURSIVE SqrtBetween(_, _, _)
SqrtBetween(n, lo, hi) ==
    IF lo >= hi THEN lo
    ELSE LET mid == (lo + hi + 1) \div 2
         IN  IF mid * mid <= n THEN SqrtBetween(n, mid, hi)
             ELSE SqrtBetween(n, lo, mid - 1)

ISqrt(n) == SqrtBetween(n, 0, 46340)

\* 1000 / (1 + exp(-z)) at z = 0, 0.125, 0.25, ... 8.0
LogisticTable ==
    <<500, 531, 562, 593, 622, 651, 679, 706, 731, 755, 777, 798, 818, 835,
      852, 867, 881, 893, 905, 915, 924, 932, 940, 947, 953, 958, 963, 967,
      971, 974, 977, 980, 982, 984, 986, 988, 989, 990, 991, 992, 993, 994,
      995, 995, 996, 996, 997, 997, 998, 998, 998, 998, 998, 999, 999, 999,
      999, 999, 999, 999, 999, 1000, 1000, 1000, 1000>>

\* the table's step, 1/8
TableStep == Q \div 8

\* 1 / (1 + exp(-z)) for z >= 0, by linear interpolation in the table
LogisticPos(z) ==
    IF z >= TableStep * (Len(LogisticTable) - 1) THEN Q
    ELSE LET k == z \div TableStep
             r == z % TableStep
             lo == LogisticTable[k + 1]
             hi == LogisticTable[k + 2]
         IN  lo + RoundDiv((hi - lo) * r, TableStep)

\* discrimination * (ability - difficulty), in units of 1/1000
Logit(ability, difficulty, discrimination) ==
    LET diff == ability - difficulty
    IN  IF Abs(diff) > 100 * Q
        THEN discrimination * RoundDiv(diff, Q)
        ELSE RoundDiv(discrimination * diff, Q)

\* math.exp raises OverflowError above exp(709.78)
ExpOverflowAt == 709782

ExpOverflows(ability, difficulty, discrimination) ==
    -Logit(ability, difficulty, discrimination) > ExpOverflowAt

\* the value 1.0 / (1.0 + math.exp(exponent)) when math.exp does not raise
Logistic2PL(ability, difficulty, discrimination) ==
    LET z == Logit(ability, difficulty, discrimination)
    IN  IF z >= 0 THEN LogisticPos(z) ELSE Q - LogisticPos(-z)

\* FluidEvaluator.probability_correct; -1 stands for the OverflowError
probability_correct(ability, difficulty, discrimination) ==
    IF ExpOverflows(ability, difficulty, discrimination) THEN -1
    ELSE Logistic2PL(ability, difficulty, discrimination)

\* Fisher information a^2 * p * (1 - p)
Information(discrimination, p) ==
    RoundDiv(RoundDiv(discrimination * discrimination, Q) * RoundDiv(p * (Q - p), Q), Q)

\* 1.0 / math.sqrt(info) for info > 0
InvSqrt(info) == ISqrt((Q * Q * Q) \div info)

----------------------------------------------------------------------------
(* Items.  An id is the sequence of its '-' separated fields, so that      *)
(* id.split('-')[0] is Head(id).                                           *)

IRTItem(id, difficulty, discrimination) ==
    [id |-> id, difficulty |-> difficulty, discrimination |-> discrimination,
     mislabeled_probability |-> 0]

create_test_dataset ==
    << IRTItem(<<"easy", "1">>, -1000, 1500),
       IRTItem(<<"easy", "2">>, -800, 1200),
       IRTItem(<<"medium", "1">>, 0, 1800),
       IRTItem(<<"medium", "2">>, 300, 1500),
       IRTItem(<<"hard", "1">>, 1000, 2000),
       IRTItem(<<"hard", "2">>, 1500, 2200),
       IRTItem(<<"very", "hard", "1">>, 2000, 1800) >>

Methods == {"knowledge_graph", "langstruct"}

\* float('inf')
Infinity == 2147483647

Modes == {"map", "ml"}

ExtractionAbilityUnmeasured(method, theta) ==
    [method |-> method, theta |-> theta, standard_error |-> Infinity,
     num_items_tested |-> 0]

\* ExtractionAbility(method=...) with the dataclass defaults
ExtractionAbility(method, theta) ==
    [method |-> method, theta |-> theta, standard_error |-> Q,
     num_items_tested |-> 0]

----------------------------------------------------------------------------
(* FluidEvaluator.estimate_ability *)

MaxIterations == 20

\* the inner loop `for item, correct in responses` from response k on, with
\* the gradient and Hessian accumulated so far
RECURSIVE Derivatives(_, _, _, _, _, _)
Derivatives(items, responses, theta, k, gradient, hessian) ==
    IF k > Len(responses)
    THEN [gradient |-> gradient, hessian |-> hessian, raised |-> FALSE]
    ELSE LET item == items[responses[k].item]
             p == probability_correct(theta, item.difficulty, item.discrimination)
         IN  IF p < 0
             THEN [gradient |-> gradient, hessian |-> hessian, raised |-> TRUE]
             ELSE Derivatives(items, responses, theta, k + 1,
                              gradient + (IF responses[k].correct
                                          THEN RoundDiv(item.discrimination * (Q - p), Q)
                                          ELSE -RoundDiv(item.discrimination * p, Q)),
                              hessian - Information(item.discrimination, p))

\* gradient and Hessian with the prior of the 'map' method added
WithPrior(d, theta, method) ==
    IF method = "map"
    THEN [gradient |-> d.gradient - theta, hessian |-> d.hessian - Q, raised |-> d.raised]
    ELSE d

\* a Hessian above 1.0 in absolute value
HessianUsableAboveOne(hessian) == Abs(hessian) > Q

\* abs(hessian) > 1e-6: at this resolution, a Hessian that is not 0
HessianUsable(hessian) == hessian # 0

\* -gradient / hessian in units of 1e-4
NewtonStep(gradient, hessian) ==
    IF hessian < 0 THEN RoundDiv(gradient * Q * 10, -hessian)
    ELSE -RoundDiv(gradient * Q * 10, hessian)

\* abs(theta_new - theta) < 1e-4
Converged(step) == Abs(step) < 1

\* one pass of the loop body as the loop records it: theta at its start, the
\* gradient and Hessian computed, and theta at its end
Iteration(theta, d, theta_after) ==
    [theta |-> theta, gradient |-> d.gradient, hessian |-> d.hessian,
     theta_after |-> theta_after]

\* the Newton-Raphson loop from iteration number `iteration` on; `break` tells
\* that the loop was left by its break, `update` is theta_new - theta there,
\* `trace` lists the iterations that ran to their end
RECURSIVE NewtonRaphson(_, _, _, _, _)
NewtonRaphson(items, responses, method, theta, iteration) ==
    IF iteration >= MaxIterations
    THEN [theta |-> theta, raised |-> FALSE, iterations |-> iteration,
          break |-> FALSE, update |-> 0, trace |-> <<>>]
    ELSE LET d == WithPrior(Derivatives(items, responses, theta, 1, 0, 0), theta, method)
         IN  IF d.raised
             THEN [theta |-> theta, raised |-> TRUE, iterations |-> iteration + 1,
                   break |-> FALSE, update |-> 0, trace |-> <<>>]
             ELSE IF HessianUsable(d.hessian)
             THEN LET step == NewtonStep(d.gradient, d.hessian)
                      theta_new == theta + RoundDiv(step, 10)
                  IN  IF Converged(step)
                      THEN [theta |-> theta_new, raised |-> FALSE,
                            iterations |-> iteration + 1,
                            break |-> TRUE, update |-> step,
                            trace |-> <<Iteration(theta, d, theta_new)>>]
                      ELSE LET rest == NewtonRaphson(items, responses, method,
                                                     theta_new, iteration + 1)
                           IN  [rest EXCEPT !.trace =
                                    <<Iteration(theta, d, theta_new)>> \o @]
             ELSE LET rest == NewtonRaphson(items, responses, method, theta,
                                            iteration + 1)
                  IN  [rest EXCEPT !.trace = <<Iteration(theta, d, theta)>> \o @]

\* the sum below, leaving out the items the detector has marked
RECURSIVE FisherInfoUnflagged(_, _, _, _, _)
FisherInfoUnflagged(items, responses, theta, k, total) ==
    IF k > Len(responses) THEN total
    ELSE LET item == items[responses[k].item]
             p == probability_correct(theta, item.difficulty, item.discrimination)
         IN  IF p < 0 THEN -1
             ELSE FisherInfoUnflagged(items, responses, theta, k + 1,
                      total + (IF item.mislabeled_probability > 0 THEN 0
                               ELSE Information(item.discrimination, p)))

\* sum of a^2 * p * (1 - p) over the responses; -1 when probability_correct raises
RECURSIVE FisherInfo(_, _, _, _, _)
FisherInfo(items, responses, theta, k, total) ==
    IF k > Len(responses) THEN total
    ELSE LET item == items[responses[k].item]
             p == probability_correct(theta, item.difficulty, item.discrimination)
         IN  IF p < 0 THEN -1
             ELSE FisherInfo(items, responses, theta, k + 1,
                             total + Information(item.discrimination, p))

StandardErrorOf(fisher_info) ==
    IF fisher_info > 0 THEN InvSqrt(fisher_info) ELSE Q

\* the ExtractionAbility returned, with raised = TRUE when the call raises
estimate_ability(items, responses, method) ==
    IF responses = <<>>
    THEN LET unknown == ExtractionAbility("unknown", 0)
         IN  [method |-> unknown.method, theta |-> unknown.theta,
              standard_error |-> unknown.standard_error,
              num_items_tested |-> unknown.num_items_tested, raised |-> FALSE]
    ELSE LET nr == NewtonRaphson(items, responses, method, 0, 0)
             fisher_info == IF nr.raised THEN -1
                            ELSE FisherInfo(items, responses, nr.theta, 1, 0)
         IN  IF nr.raised \/ fisher_info < 0
             THEN [method |-> "unknown", theta |-> 0, standard_error |-> Q,
                   num_items_tested |-> 0, raised |-> TRUE]
             ELSE [method |-> Head(items[responses[1].item].id),
                   theta |-> nr.theta,
                   standard_error |-> StandardErrorOf(fisher_info),
                   num_items_tested |-> Len(responses),
                   raised |-> FALSE]

----------------------------------------------------------------------------
(* FluidEvaluator.select_next_item *)

SeqToSet(s) == {s[k] : k \in 1..Len(s)}

\* indexes of the items whose id is not in administered_items, in pool order
RECURSIVE AvailableFrom(_, _, _)
AvailableFrom(items, administered_items, k) ==
    IF k > Len(items) THEN <<>>
    ELSE (IF items[k].id \in SeqToSet(administered_items) THEN <<>> ELSE <<k>>)
         \o AvailableFrom(items, administered_items, k + 1)

available_items(items, administered_items) ==
    AvailableFrom(items, administered_items, 1)

\* the probability of a correct answer in the place of the information
ItemInfoByEase(item, theta) ==
    probability_correct(theta, item.difficulty, item.discrimination)

ItemInfo(item, theta) ==
    LET p == probability_correct(theta, item.difficulty, item.discrimination)
    IN  IF p < 0 THEN -1 ELSE Information(item.discrimination, p)

RECURSIVE LastMax(_, _, _, _, _, _)
LastMax(items, avail, theta, k, best, best_info) ==
    IF k > Len(avail) THEN best
    ELSE LET info == ItemInfo(items[avail[k]], theta)
         IN  IF info >= best_info
             THEN LastMax(items, avail, theta, k + 1, avail[k], info)
             ELSE LastMax(items, avail, theta, k + 1, best, best_info)

\* first element of the stable descending sort by information: the scan of
\* avail[k..] keeps the earliest item of the largest information seen
RECURSIVE FirstMax(_, _, _, _, _, _)
FirstMax(items, avail, theta, k, best, best_info) ==
    IF k > Len(avail) THEN best
    ELSE LET info == ItemInfo(items[avail[k]], theta)
         IN  IF info > best_info
             THEN FirstMax(items, avail, theta, k + 1, avail[k], info)
             ELSE FirstMax(items, avail, theta, k + 1, best, best_info)

\* index of the item returned; 0 for None, -1 when probability_correct raises
select_next_item(items, theta, administered_items) ==
    LET avail == available_items(items, administered_items)
    IN  IF avail = <<>> THEN 0
        ELSE IF \E k \in 1..Len(avail) : ItemInfo(items[avail[k]], theta) < 0 THEN -1
        ELSE FirstMax(items, avail, theta, 1, 0, -1)

----------------------------------------------------------------------------
(* FluidEvaluator.fluid_benchmarking, one coroutine per extraction method. *)
(* The coroutine runs without interruption between two awaits, so one      *)
(* action is the code from one return of `await self._test_extraction` to  *)
(* the next await or to the return statement.                              *)

EarlyStopThreshold == 300

EarlyStopIndex == 10

early_stop_either(ability, i) ==
    ability.standard_error < EarlyStopThreshold \/ i >= EarlyStopIndex

\* current_ability.standard_error < 0.3 and i >= 10
early_stop(ability, i) ==
    ability.standard_error < EarlyStopThreshold /\ i >= EarlyStopIndex

in_range_inclusive(i, n_max) == i <= n_max

\* `for i in range(n_max)`: the body runs for index i
in_range(i, n_max) == i < n_max

CountCorrect(responses) ==
    Cardinality({k \in 1..Len(responses) : responses[k].correct})

\* the correct share of the whole pool
AccuracyOverPool(responses) ==
    IF responses = <<>> THEN 0
    ELSE (CountCorrect(responses) * Q) \div Len(test_items)

\* sum(correct) / len(responses) if responses else 0
Accuracy(responses) ==
    IF responses = <<>> THEN 0
    ELSE (CountCorrect(responses) * Q) \div Len(responses)

\* the dict of the return statement
SessionResult(method, responses, administered_items, ability) ==
    [method |-> method,
     final_ability |-> ability.theta,
     standard_error |-> ability.standard_error,
     items_administered |-> Len(administered_items),
     items_correct |-> CountCorrect(responses),
     accuracy |-> Accuracy(responses),
     administered_items |-> administered_items,
     ability_estimate |-> ability]

next_item_for_shared(ability, administered_items) ==
    select_next_item(test_items, ability.theta,
                     administered_items \o s_administered["knowledge_graph"]
                                        \o s_administered["langstruct"])

\* self.select_next_item(current_ability, administered_items): the pool is
\* self.test_items, the administered ids are the session's local list
\* the selection made at the average ability, whatever the estimate is
next_item_at_origin(ability, administered_items) ==
    select_next_item(test_items, 0, administered_items)

next_item_for(ability, administered_items) ==
    select_next_item(test_items, ability.theta, administered_items)

recorded_history_shared(history, response) == Append(history, response)

\* responses.append((next_item, is_correct)) appends to the local list of the
\* session: self.response_history stays as it is
recorded_history(history, response) == history

\* the head of `for i in range(n_max)` at index i: select, then await or leave
LoopHead(m, i, n_max, responses, administered_items, ability) ==
    \E more \in {in_range(i, n_max)} :
    \E next_item \in {IF more THEN next_item_for(ability, administered_items) ELSE 0} :
        /\ s_i' = [s_i EXCEPT ![m] = i]
        /\ s_responses' = [s_responses EXCEPT ![m] = responses]
        /\ s_administered' = [s_administered EXCEPT ![m] = administered_items]
        /\ s_ability' = [s_ability EXCEPT ![m] = ability]
        /\ s_next' = [s_next EXCEPT ![m] = IF next_item > 0 THEN next_item ELSE 0]
        /\ IF next_item > 0
           THEN /\ s_pc' = [s_pc EXCEPT ![m] = "evaluate"]
                /\ UNCHANGED <<s_exit, s_result>>
           ELSE IF next_item < 0
           THEN /\ s_pc' = [s_pc EXCEPT ![m] = "raised"]
                /\ s_exit' = [s_exit EXCEPT ![m] = "OverflowError"]
                /\ UNCHANGED s_result
           ELSE /\ s_pc' = [s_pc EXCEPT ![m] = "done"]
                /\ s_exit' = [s_exit EXCEPT ![m] =
                                 IF more THEN "exhausted" ELSE "n_max"]
                /\ s_result' = [s_result EXCEPT ![m] =
                                 <<SessionResult(m, responses, administered_items, ability)>>]

NoSessionStarted == \A m \in Methods : s_pc[m] = "idle"

\* fluid_benchmarking(extraction_method, start_ability, n_max, estimation_method)
\* is called and runs to its first await
StartSession(m, start_ability, n_max, estimation_method) ==
    /\ program = "fluid_evaluation"
    /\ s_pc[m] = "idle"
    /\ s_args' = [s_args EXCEPT ![m] = [n_max |-> n_max,
                                        estimation_method |-> estimation_method,
                                        start_ability |-> start_ability]]
    /\ LoopHead(m, 0, n_max, <<>>, <<>>, ExtractionAbility(m, start_ability))
    /\ UNCHANGED <<program, test_items, abilities, response_history,
                   ocrVars, detVars, selVars, estVars>>

\* `await self._test_extraction(...)` returns is_correct; the loop body runs on
\* to the next await or leaves the loop
EvaluateReturns(m, is_correct) ==
    /\ s_pc[m] = "evaluate"
    /\ \E responses \in {Append(s_responses[m],
                                [item |-> s_next[m], correct |-> is_correct])} :
       \E administered_items \in {Append(s_administered[m], test_items[s_next[m]].id)} :
       \E estimate \in {estimate_ability(test_items, responses,
                                         s_args[m].estimation_method)} :
       \E ability \in {[method |-> estimate.method, theta |-> estimate.theta,
                        standard_error |-> estimate.standard_error,
                        num_items_tested |-> estimate.num_items_tested]} :
           IF estimate.raised
           THEN /\ s_pc' = [s_pc EXCEPT ![m] = "raised"]
                /\ s_exit' = [s_exit EXCEPT ![m] = "OverflowError"]
                /\ s_responses' = [s_responses EXCEPT ![m] = responses]
                /\ s_administered' = [s_administered EXCEPT ![m] = administered_items]
                /\ UNCHANGED <<s_i, s_ability, s_next, s_result>>
           ELSE IF early_stop(ability, s_i[m])
           THEN /\ s_pc' = [s_pc EXCEPT ![m] = "done"]
                /\ s_exit' = [s_exit EXCEPT ![m] = "early_stop"]
                /\ s_responses' = [s_responses EXCEPT ![m] = responses]
                /\ s_administered' = [s_administered EXCEPT ![m] = administered_items]
                /\ s_ability' = [s_ability EXCEPT ![m] = ability]
                /\ s_result' = [s_result EXCEPT ![m] =
                                 <<SessionResult(m, responses, administered_items, ability)>>]
                /\ UNCHANGED <<s_i, s_next>>
           ELSE LoopHead(m, s_i[m] + 1, s_args[m].n_max, responses,
                         administered_items, ability)
    /\ response_history' = recorded_history(response_history,
                                            [item |-> s_next[m], correct |-> is_correct])
    /\ UNCHANGED <<program, test_items, abilities, s_args, ocrVars, detVars, selVars, estVars>>

\* the awaited _test_extraction raises: nothing in fluid_benchmarking catches
\* it, the exception leaves the coroutine and no dict is returned
EvaluateRaises(m) ==
    /\ s_pc[m] = "evaluate"
    /\ s_pc' = [s_pc EXCEPT ![m] = "raised"]
    /\ s_exit' = [s_exit EXCEPT ![m] = "EvaluationFailure"]
    /\ UNCHANGED <<program, test_items, abilities, response_history, s_args, s_i,
                   s_responses, s_administered, s_ability, s_next, s_result,
                   ocrVars, detVars, selVars, estVars>>

\* the task is cancelled while suspended in the await: asyncio throws
\* CancelledError into the coroutine, which has no handler for it
CancelSession(m) ==
    /\ s_pc[m] = "evaluate"
    /\ s_pc' = [s_pc EXCEPT ![m] = "cancelled"]
    /\ s_exit' = [s_exit EXCEPT ![m] = "CancelledError"]
    /\ UNCHANGED <<program, test_items, abilities, response_history, s_args, s_i,
                   s_responses, s_administered, s_ability, s_next, s_result,
                   ocrVars, detVars, selVars, estVars>>

----------------------------------------------------------------------------
(* OCRIRTBenchmark *)

\* an item of the dataset file: id, difficulty label, number of schema properties
OcrRawItem(id, label, num_fields) ==
    [id |-> id, difficulty |-> label, num_fields |-> num_fields]

OcrDataset ==
    << OcrRawItem("ocr_0000", "medium", 5),
       OcrRawItem("ocr_0001", "easy", 2),
       OcrRawItem("ocr_0002", "hard", 8),
       OcrRawItem("ocr_0003", "easy", 3),
       OcrRawItem("ocr_0004", "hard", 7),
       OcrRawItem("ocr_0005", "medium", 6),
       OcrRawItem("ocr_0006", "medium", 4) >>

\* OCRIRTBenchmark._estimate_difficulty
estimate_difficulty(item) ==
    LET \* item.get('difficulty', 'medium')
        label == IF "difficulty" \in DOMAIN item THEN item.difficulty ELSE "medium"
        \* len(item.get('schema', {}).get('properties', {}))
        num_fields == IF "num_fields" \in DOMAIN item THEN item.num_fields ELSE 0
        base_difficulty == CASE label = "easy" -> -1000
                             [] label = "medium" -> 0
                             [] label = "hard" -> 1000
                             [] OTHER -> 0
        complexity_adjustment == (num_fields - 5) * 200
    IN  base_difficulty + complexity_adjustment

\* OCRIRTBenchmark.load_dataset: every item gets its irt_params
load_dataset(data) ==
    [k \in 1..Len(data) |->
        [id |-> data[k].id,
         difficulty |-> estimate_difficulty(data[k]),
         discrimination |-> Q]]

\* OCRIRTBenchmark.probability_correct: the OverflowError is caught
ocr_probability_correct(ability, difficulty, discrimination) ==
    IF ExpOverflows(ability, difficulty, discrimination)
    THEN (IF ability > difficulty THEN Q ELSE 0)
    ELSE Logistic2PL(ability, difficulty, discrimination)

\* IRT_CONFIG
OcrMaxIterations == 50

OcrConvergence == 100     \* convergence_threshold 0.01 in units of 1e-4

PriorStd == 1000

\* ability_prior_std ** 2
PriorVariance == RoundDiv(PriorStd * PriorStd, Q)

\* the inner loop over responses
RECURSIVE OcrDerivatives(_, _, _, _, _)
OcrDerivatives(responses, ability, k, gradient, hessian) ==
    IF k > Len(responses) THEN [gradient |-> gradient, hessian |-> hessian]
    ELSE LET a == responses[k].item.discrimination
             b == responses[k].item.difficulty
             p == ocr_probability_correct(ability, b, a)
         IN  OcrDerivatives(responses, ability, k + 1,
                 gradient + RoundDiv(a * ((IF responses[k].correct THEN Q ELSE 0) - p), Q),
                 hessian - Information(a, p))

\* the Newton-Raphson loop from iteration number `iteration` on; the Hessian
\* kept is the one of the last iteration run, `break` tells that the loop was
\* left by its break, `update` is ability_update there
RECURSIVE OcrNewtonRaphson(_, _, _, _)
OcrNewtonRaphson(responses, ability, iteration, last_hessian) ==
    IF iteration >= OcrMaxIterations
    THEN [ability |-> ability, hessian |-> last_hessian, iterations |-> iteration,
          break |-> FALSE, update |-> 0, trace |-> <<>>]
    ELSE LET d == OcrDerivatives(responses, ability, 1, 0, 0)
             gradient == d.gradient - RoundDiv(ability * Q, PriorVariance)
             hessian == d.hessian - RoundDiv(Q * Q, PriorVariance)
             with_prior == [gradient |-> gradient, hessian |-> hessian]
         IN  IF hessian # 0
             THEN LET step == NewtonStep(gradient, hessian)
                      updated == ability + RoundDiv(step, 10)
                  IN  IF Abs(step) < OcrConvergence
                      THEN [ability |-> updated, hessian |-> hessian,
                            iterations |-> iteration + 1,
                            break |-> TRUE, update |-> step,
                            trace |-> <<Iteration(ability, with_prior, updated)>>]
                      ELSE LET rest == OcrNewtonRaphson(responses, updated,
                                                        iteration + 1, hessian)
                           IN  [rest EXCEPT !.trace =
                                    <<Iteration(ability, with_prior, updated)>> \o @]
             ELSE LET rest == OcrNewtonRaphson(responses, ability, iteration + 1,
                                               hessian)
                  IN  [rest EXCEPT !.trace =
                          <<Iteration(ability, with_prior, ability)>> \o @]

\* OCRIRTBenchmark.estimate_ability: (ability, standard_error)
ocr_estimate_ability(responses) ==
    LET nr == OcrNewtonRaphson(responses, 0, 0, 0)
        information == -nr.hessian
    IN  [ability |-> nr.ability,
         standard_error |-> IF information > 0 THEN InvSqrt(information) ELSE Infinity]

\* sorted(self.items, key=difficulty): stable insertion of x into sorted s
RECURSIVE InsertByDifficulty(_, _)
InsertByDifficulty(s, x) ==
    IF s = <<>> THEN <<x>>
    ELSE IF x.difficulty < Head(s).difficulty THEN <<x>> \o s
    ELSE <<Head(s)>> \o InsertByDifficulty(Tail(s), x)

RECURSIVE SortByDifficultyUpTo(_, _)
SortByDifficultyUpTo(items, n) ==
    IF n = 0 THEN <<>>
    ELSE InsertByDifficulty(SortByDifficultyUpTo(items, n - 1), items[n])

sorted_by_difficulty(items) == SortByDifficultyUpTo(items, Len(items))

OcrInfo(item, ability) ==
    Information(item.discrimination,
                ocr_probability_correct(ability, item.difficulty, item.discrimination))

\* the `information > best_info` scan over unused_items[k..]
RECURSIVE OcrBest(_, _, _, _, _, _)
OcrBest(items, unused, ability, k, best_item, best_info) ==
    IF k > Len(unused) THEN best_item
    ELSE LET information == OcrInfo(items[unused[k]], ability)
         IN  IF best_item = 0 \/ information > best_info
             THEN OcrBest(items, unused, ability, k + 1, unused[k], information)
             ELSE OcrBest(items, unused, ability, k + 1, best_item, best_info)

OcrUsedIds(responses) == {responses[k].item.id : k \in 1..Len(responses)}

RECURSIVE OcrUnusedFrom(_, _, _)
OcrUnusedFrom(items, used_ids, k) ==
    IF k > Len(items) THEN <<>>
    ELSE (IF items[k].id \in used_ids THEN <<>> ELSE <<k>>)
         \o OcrUnusedFrom(items, used_ids, k + 1)

\* OCRIRTBenchmark._select_next_item: index into available_items of the item
\* returned; -1 for the IndexError of available_items[0] on an empty list
ocr_select_next_item(available, current_ability, used_ids) ==
    LET unused_items == OcrUnusedFrom(available, used_ids, 1)
    IN  IF unused_items = <<>>
        THEN (IF available = <<>> THEN -1 ELSE 1)
        ELSE OcrBest(available, unused_items, current_ability, 1, 0, 0)

WarmStart == 3

\* the branch `if i < 3` of run_benchmark
ocr_pick(sorted_items, i, current_ability, responses) ==
    IF i < WarmStart
    THEN (i * Len(sorted_items)) \div 3 + 1
    ELSE ocr_select_next_item(sorted_items, current_ability, OcrUsedIds(responses))

\* the dict returned by run_benchmark
OcrResult(responses, final) ==
    [ability |-> final.ability,
     standard_error |-> final.standard_error,
     accuracy |-> (CountCorrect(responses) * Q) \div Len(responses),
     confidence_interval |->
        <<final.ability - RoundDiv(196 * final.standard_error, 100),
          final.ability + RoundDiv(196 * final.standard_error, 100)>>,
     responses |-> [k \in 1..Len(responses) |->
                       [item_id |-> responses[k].item.id,
                        difficulty |-> responses[k].item.difficulty,
                        correct |-> responses[k].correct]]]

\* the head of `for i in range(min(num_items, len(sorted_items)))` at index i
OcrLoopHead(i, num_items, sorted_items, responses, ability, se) ==
    /\ o_i' = i
    /\ o_responses' = responses
    /\ o_ability' = ability
    /\ o_se' = se
    /\ IF i < Min(num_items, Len(sorted_items))
       THEN \E item \in {ocr_pick(sorted_items, i, ability, responses)} :
                IF item < 0
                THEN /\ o_pc' = "raised"
                     /\ o_item' = 0
                     /\ UNCHANGED o_result
                ELSE /\ o_pc' = "evaluate"
                     /\ o_item' = item
                     /\ UNCHANGED o_result
       ELSE /\ o_item' = 0
            /\ IF responses = <<>>
               THEN \* sum(...) / len(responses): ZeroDivisionError
                    /\ o_pc' = "raised"
                    /\ UNCHANGED o_result
               ELSE /\ o_pc' = "done"
                    /\ o_result' = <<OcrResult(responses, ocr_estimate_ability(responses))>>

\* run_benchmark(num_items) is called and runs to its first await
OcrStart(num_items) ==
    /\ program = "ocr_irt_benchmark"
    /\ o_pc = "idle"
    /\ o_num' = num_items
    /\ \E sorted_items \in {sorted_by_difficulty(o_items)} :
           /\ o_sorted' = sorted_items
           /\ OcrLoopHead(0, num_items, sorted_items, <<>>, 0, 0)
    /\ UNCHANGED <<program, o_items, o_details, fluidVars, detVars, selVars, estVars>>

\* `await self.evaluate_ocr_task(item)` returns (correct, details); details is
\* "score" for a scored reply and "error" for a non-200 reply or an exception,
\* in which case correct is False
OcrEvaluateReturns(correct, details) ==
    /\ o_pc = "evaluate"
    /\ details = "error" => ~correct
    /\ o_details' = details
    /\ \E responses \in {Append(o_responses, [item |-> o_sorted[o_item], correct |-> correct])} :
       \E estimate \in {ocr_estimate_ability(responses)} :
           OcrLoopHead(o_i + 1, o_num, o_sorted, responses,
                       estimate.ability, estimate.standard_error)
    /\ UNCHANGED <<program, o_items, o_num, o_sorted, fluidVars, detVars, selVars, estVars>>

----------------------------------------------------------------------------
(* FluidEvaluator.identify_mislabeled_items *)

\* iteration order of the dict responses_across_models
MethodOrder == <<"knowledge_graph", "langstruct">>

\* self.abilities.get(method, ExtractionAbility(method=method))
AbilityOf(known, method) ==
    IF method \in DOMAIN known THEN known[method] ELSE ExtractionAbility(method, 0)

\* the (ability.theta, correct) pairs of one method's responses to the item id
RECURSIVE MethodResponses(_, _, _, _)
MethodResponses(id, responses, theta, k) ==
    IF k > Len(responses) THEN <<>>
    ELSE (IF responses[k].id = id
          THEN <<[theta |-> theta, correct |-> responses[k].correct]>>
          ELSE <<>>)
         \o MethodResponses(id, responses, theta, k + 1)

\* item_responses: all responses to the item id, method by method
RECURSIVE ItemResponses(_, _, _, _)
ItemResponses(id, responses_across_models, known, j) ==
    IF j > Len(MethodOrder) THEN <<>>
    ELSE LET method == MethodOrder[j]
         IN  (IF method \in DOMAIN responses_across_models
              THEN MethodResponses(id, responses_across_models[method],
                                   AbilityOf(known, method).theta, 1)
              ELSE <<>>)
             \o ItemResponses(id, responses_across_models, known, j + 1)

\* n / d rounded up, n >= 0, d > 0: a quotient is above an integer threshold
\* exactly when the exact quotient is
CeilDiv(n, d) == (n + d - 1) \div d

\* sum(abs(expected - actual)) over item_responses[k..]; -1 on OverflowError
RECURSIVE AbsErrorSum(_, _, _, _)
AbsErrorSum(item, item_responses, k, total) ==
    IF k > Len(item_responses) THEN total
    ELSE LET expected_p == probability_correct(item_responses[k].theta,
                                               item.difficulty, item.discrimination)
             actual == IF item_responses[k].correct THEN Q ELSE 0
         IN  IF expected_p < 0 THEN -1
             ELSE AbsErrorSum(item, item_responses, k + 1,
                              total + Abs(expected_p - actual))

\* a discrepancy smoothed with the value the item already carries
DiscrepancySmoothed(item, item_responses) ==
    LET total == AbsErrorSum(item, item_responses, 1, 0)
    IN  IF total < 0 THEN -1
        ELSE (CeilDiv(total, Len(item_responses)) + item.mislabeled_probability) \div 2

\* discrepancy of an item with at least one response; -1 on OverflowError
Discrepancy(item, item_responses) ==
    LET total == AbsErrorSum(item, item_responses, 1, 0)
    IN  IF total < 0 THEN -1 ELSE CeilDiv(total, Len(item_responses))

\* `if not item_responses: continue`
skip_item(item_responses) == item_responses = <<>>

flag_item_at_threshold(discrepancy, threshold) == discrepancy >= threshold

\* `if discrepancy > threshold`
flag_item(discrepancy, threshold) == discrepancy > threshold

\* the loop `for item in self.test_items` from index k on
RECURSIVE DetectFrom(_, _, _, _, _, _)
DetectFrom(items, responses_across_models, known, threshold, k, mislabeled) ==
    IF k > Len(items) THEN [items |-> items, mislabeled |-> mislabeled, raised |-> FALSE]
    ELSE LET item_responses == ItemResponses(items[k].id, responses_across_models, known, 1)
         IN  IF skip_item(item_responses)
             THEN DetectFrom(items, responses_across_models, known, threshold,
                             k + 1, mislabeled)
             ELSE LET discrepancy == Discrepancy(items[k], item_responses)
                  IN  IF discrepancy < 0
                      THEN [items |-> items, mislabeled |-> mislabeled, raised |-> TRUE]
                      ELSE IF flag_item(discrepancy, threshold)
                      THEN DetectFrom([items EXCEPT ![k].mislabeled_probability = discrepancy],
                                      responses_across_models, known, threshold,
                                      k + 1, Append(mislabeled, k))
                      ELSE DetectFrom(items, responses_across_models, known, threshold,
                                      k + 1, mislabeled)

sort_key_ascending(items, k) == -items[k].mislabeled_probability

\* key of mislabeled.sort(key=lambda x: x.mislabeled_probability, reverse=True)
sort_key(items, k) == items[k].mislabeled_probability

\* stable insertion of index x into a list sorted by descending key
RECURSIVE InsertDescending(_, _, _)
InsertDescending(items, s, x) ==
    IF s = <<>> THEN <<x>>
    ELSE IF sort_key(items, x) > sort_key(items, Head(s)) THEN <<x>> \o s
    ELSE <<Head(s)>> \o InsertDescending(items, Tail(s), x)

RECURSIVE SortDescendingUpTo(_, _, _)
SortDescendingUpTo(items, s, n) ==
    IF n = 0 THEN <<>>
    ELSE InsertDescending(items, SortDescendingUpTo(items, s, n - 1), s[n])

identify_mislabeled_items_sorting_pool(items, known, responses_across_models, threshold) ==
    LET r == DetectFrom(items, responses_across_models, known, threshold, 1, <<>>)
        order == SortDescendingUpTo(r.items, [k \in 1..Len(items) |-> k], Len(items))
    IN  [items |-> [k \in 1..Len(items) |-> r.items[order[k]]],
         mislabeled |-> IF r.raised THEN <<>>
                        ELSE SortDescendingUpTo(r.items, r.mislabeled, Len(r.mislabeled)),
         raised |-> r.raised]

\* a detector that starts every call from a cleared pool: an item it does not
\* return gets mislabeled_probability 0.0
identify_mislabeled_items_resetting(items, known, responses_across_models, threshold) ==
    LET r == DetectFrom(items, responses_across_models, known, threshold, 1, <<>>)
    IN  [items |-> [k \in 1..Len(items) |->
                       IF k \in SeqToSet(r.mislabeled) THEN r.items[k]
                       ELSE [r.items[k] EXCEPT !.mislabeled_probability = 0]],
         mislabeled |-> IF r.raised THEN <<>>
                        ELSE SortDescendingUpTo(r.items, r.mislabeled, Len(r.mislabeled)),
         raised |-> r.raised]

\* what the call does: the items after it, the list returned, raised
identify_mislabeled_items(items, known, responses_across_models, threshold) ==
    LET r == DetectFrom(items, responses_across_models, known, threshold, 1, <<>>)
    IN  [items |-> r.items,
         mislabeled |-> IF r.raised THEN <<>>
                        ELSE SortDescendingUpTo(r.items, r.mislabeled, Len(r.mislabeled)),
         raised |-> r.raised]

\* evaluator.identify_mislabeled_items(responses_across_models, threshold) is called
IdentifyMislabeled(responses_across_models, threshold) ==
    /\ program = "fluid_evaluation"
    /\ d_calls < MaxDetCalls
    /\ \E r \in {identify_mislabeled_items(test_items, abilities,
                                           responses_across_models, threshold)} :
           /\ test_items' = r.items
           /\ d_out' = r.mislabeled
           /\ d_raised' = r.raised
    /\ d_calls' = d_calls + 1
    /\ d_in' = [responses |-> responses_across_models, threshold |-> threshold]
    /\ d_before' = test_items
    /\ UNCHANGED <<program, abilities, response_history, s_pc, s_args, s_i,
                   s_responses, s_administered, s_ability, s_next, s_exit, s_result,
                   ocrVars, selVars, estVars>>

----------------------------------------------------------------------------
(* One call of a selector on given arguments *)

CallSelectNextItem ==
    /\ q_fn = "FluidEvaluator.select_next_item"
    /\ q_out = <<>>
    /\ q_out' = <<select_next_item(q_pool, q_theta, q_used)>>
    /\ UNCHANGED <<program, fluidVars, ocrVars, detVars, estVars, q_fn, q_pool, q_theta, q_used>>

CallOcrSelectNextItem ==
    /\ q_fn = "OCRIRTBenchmark._select_next_item"
    /\ q_out = <<>>
    /\ q_out' = <<ocr_select_next_item(q_pool, q_theta, SeqToSet(q_used))>>
    /\ UNCHANGED <<program, fluidVars, ocrVars, detVars, estVars, q_fn, q_pool, q_theta, q_used>>

----------------------------------------------------------------------------
(* Calls of estimate_ability on given responses *)

\* evaluator.estimate_ability(responses, method)
CallEstimateAbility ==
    /\ program = "fluid_evaluation"
    /\ Len(e_out) < 2
    /\ e_out' = Append(e_out, estimate_ability(test_items, e_in.responses, e_in.mode))
    /\ UNCHANGED <<program, fluidVars, ocrVars, detVars, selVars, e_in, p_in, p_out>>

\* benchmark.estimate_ability(responses)
CallOcrEstimateAbility ==
    /\ program = "ocr_irt_benchmark"
    /\ Len(e_out) < 2
    /\ e_out' = Append(e_out,
                       ocr_estimate_ability(
                           [k \in 1..Len(e_in.responses) |->
                               [item |-> o_items[e_in.responses[k].item],
                                correct |-> e_in.responses[k].correct]]))
    /\ UNCHANGED <<program, fluidVars, ocrVars, detVars, selVars, e_in, p_in, p_out>>

\* evaluator.probability_correct(ability, difficulty, discrimination)
CallProbabilityCorrect ==
    /\ program = "fluid_evaluation"
    /\ p_out = <<>>
    /\ p_out' = <<probability_correct(p_in.ability, p_in.difficulty, p_in.discrimination)>>
    /\ UNCHANGED <<program, fluidVars, ocrVars, detVars, selVars, e_in, e_out, p_in>>

\* benchmark.probability_correct(ability, difficulty, discrimination)
CallOcrProbabilityCorrect ==
    /\ program = "ocr_irt_benchmark"
    /\ p_out = <<>>
    /\ p_out' = <<ocr_probability_correct(p_in.ability, p_in.difficulty,
                                          p_in.discrimination)>>
    /\ UNCHANGED <<program, fluidVars, ocrVars, detVars, selVars, e_in, e_out, p_in>>

\* the responses of e_in in the form identify_mislabeled_items takes
EstimatedResponses ==
    [m \in Methods |->
        IF m = "knowledge_graph"
        THEN [k \in 1..Len(e_in.responses) |->
                 [id |-> test_items[e_in.responses[k].item].id,
                  correct |-> e_in.responses[k].correct]]
        ELSE <<>>]

----------------------------------------------------------------------------
(* Inputs *)

\* a pool in which two items carry the same id
RepeatedIdPool ==
    << create_test_dataset[1], create_test_dataset[5],
       IRTItem(create_test_dataset[1].id, -2000, 1500) >>

\* a pool in which two items have the same parameters
TwinPool ==
    << create_test_dataset[1], create_test_dataset[3],
       IRTItem(<<"medium", "3">>, create_test_dataset[3].difficulty,
               create_test_dataset[3].discrimination) >>

FluidPools ==
    {SubSeq(create_test_dataset, 1, n) : n \in 0..Min(MaxPool, Len(create_test_dataset))}
    \cup {RepeatedIdPool}

OcrPools ==
    {load_dataset(SubSeq(OcrDataset, 1, n)) : n \in 0..Min(MaxOcrPool, Len(OcrDataset))}

\* a dataset file in which the second item has no 'difficulty' key and the
\* third has no 'schema' key
IncompleteDataset ==
    << OcrRawItem("ocr_0000", "hard", 5),
       [id |-> "ocr_0001", num_fields |-> 7],
       [id |-> "ocr_0002", difficulty |-> "easy"] >>

\* ids of the items of data that carry no difficulty
LacksDifficulty(data) ==
    {data[k].id : k \in {j \in 1..Len(data) : "difficulty" \notin DOMAIN data[j]}}

\* items of high discrimination around the average difficulty
CalibratedPool(n) ==
    [k \in 1..n |-> IRTItem(<<"cal", ToString(k)>>, (k - 6) * 100, 2500)]

StartAbilities == {0, 1000}

Thetas == {-2000, 0, 1500}

Thresholds == {300, 500}

\* the bank [easy-1 (-1.0, 1.5), hard-1 (1.0, 2.0)]
ScenarioBank == << create_test_dataset[1], create_test_dataset[5] >>

\* the bank [hard-1 (1.0, 2.0), hard-2 (1.5, 2.2), very-hard-1 (2.0, 1.8)]
HardBank == SubSeq(create_test_dataset, 5, 7)

\* start_ability inside the documented range of theta, -3 to 3, and far above it
ScenarioAbilities == {-3000, 0, 500, 1000, 3000, 40 * Q}

\* abilities from -800.0 to 800.0, where exp(discrimination * 800) overflows
FarAbilities == {-800 * Q, -30 * Q, -3000, -500, 0, 500, 3000, 30 * Q, 800 * Q}

Difficulties == {-1000, 0, 1500}

Discriminations == {500, Q, 2200}

\* the ids of s at the indexes in S, in the order of s
RECURSIVE IdsAt(_, _, _)
IdsAt(s, S, k) ==
    IF k > Len(s) THEN <<>>
    ELSE (IF k \in S THEN <<s[k].id>> ELSE <<>>) \o IdsAt(s, S, k + 1)

\* responses of one method: the first n dataset items with the outcomes in `right`
ResponsesOn(n, right) ==
    [k \in 1..n |-> [id |-> create_test_dataset[k].id, correct |-> k \in right]]

ResponseLists ==
    UNION {{ResponsesOn(n, right) : right \in SUBSET (1..n)} : n \in 0..MaxResp}

\* responses_across_models: a response list per method, MaxResp responses in all
DetectorInputs ==
    {r \in [Methods -> ResponseLists] :
        Len(r["knowledge_graph"]) + Len(r["langstruct"]) <= MaxResp}

\* the indexes in S from k on, in increasing order
RECURSIVE IndexesIn(_, _, _)
IndexesIn(S, k, n) ==
    IF k > n THEN <<>>
    ELSE (IF k \in S THEN <<k>> ELSE <<>>) \o IndexesIn(S, k + 1, n)

\* responses to the items at the indexes S of a pool of n items, those in
\* `right` correct
ResponsesAt(S, right, n) ==
    LET at == IndexesIn(S, 1, n)
    IN  [j \in 1..Len(at) |-> [item |-> at[j], correct |-> at[j] \in right]]

\* the response lists of at most MaxResp responses to a pool of n items
EstimateInputs(n) ==
    UNION {{ResponsesAt(S, right, n) : right \in SUBSET S}
              : S \in {T \in SUBSET (1..n) : Cardinality(T) <= MaxResp}}

----------------------------------------------------------------------------
(* Specifications *)

NoAbilities == [m \in {} |-> 0]

IdleSessions ==
    /\ s_pc = [m \in Methods |-> "idle"]
    /\ s_args = [m \in Methods |-> [n_max |-> 0, estimation_method |-> "map",
                                    start_ability |-> 0]]
    /\ s_i = [m \in Methods |-> 0]
    /\ s_responses = [m \in Methods |-> <<>>]
    /\ s_administered = [m \in Methods |-> <<>>]
    /\ s_ability = [m \in Methods |-> ExtractionAbility(m, 0)]
    /\ s_next = [m \in Methods |-> 0]
    /\ s_exit = [m \in Methods |-> "none"]
    /\ s_result = [m \in Methods |-> <<>>]

IdleEvaluator ==
    /\ abilities = NoAbilities
    /\ response_history = <<>>
    /\ IdleSessions

IdleOcr ==
    /\ o_pc = "idle"
    /\ o_num = 0
    /\ o_sorted = <<>>
    /\ o_i = 0
    /\ o_item = 0
    /\ o_details = "none"
    /\ o_responses = <<>>
    /\ o_ability = 0
    /\ o_se = 0
    /\ o_result = <<>>

IdleDetector ==
    /\ d_calls = 0
    /\ d_in = [responses |-> [m \in Methods |-> <<>>], threshold |-> 0]
    /\ d_before = <<>>
    /\ d_out = <<>>
    /\ d_raised = FALSE

IdleSelector ==
    /\ q_fn = "none"
    /\ q_pool = <<>>
    /\ q_theta = 0
    /\ q_used = <<>>
    /\ q_out = <<>>

IdleProbability ==
    /\ p_in = [ability |-> 0, difficulty |-> 0, discrimination |-> Q]
    /\ p_out = <<>>

IdleEstimator ==
    /\ e_in = [responses |-> <<>>, mode |-> "map"]
    /\ e_out = <<>>
    /\ IdleProbability

\* the two scripts: a FluidEvaluator over a pool, or an OCRIRTBenchmark after
\* load_dataset
Init ==
    /\ program \in {"fluid_evaluation", "ocr_irt_benchmark"}
    /\ test_items \in (IF program = "fluid_evaluation" THEN FluidPools ELSE {<<>>})
    /\ o_items \in (IF program = "ocr_irt_benchmark" THEN OcrPools ELSE {<<>>})
    /\ IdleEvaluator
    /\ IdleOcr
    /\ IdleDetector
    /\ IdleSelector
    /\ IdleEstimator

Next ==
    \/ \E m \in Methods, a \in StartAbilities, n \in 0..MaxN, e \in Modes :
           NoSessionStarted /\ StartSession(m, a, n, e)
    \/ \E m \in Methods, c \in BOOLEAN : EvaluateReturns(m, c)
    \/ \E m \in Methods : EvaluateRaises(m)
    \/ \E m \in Methods : CancelSession(m)
    \/ \E n \in 0..MaxN : OcrStart(n)
    \/ \E c \in BOOLEAN, d \in {"score", "error"} : OcrEvaluateReturns(c, d)

Spec == Init /\ [][Next]_vars

\* one session over a pool large enough for the early stop
InitEarly ==
    /\ program = "fluid_evaluation"
    /\ test_items = CalibratedPool(EarlyPool)
    /\ o_items = <<>>
    /\ IdleEvaluator
    /\ IdleOcr
    /\ IdleDetector
    /\ IdleSelector
    /\ IdleEstimator

NextEarly ==
    \/ \E n \in {EarlyPool - 2, EarlyPool} :
           NoSessionStarted /\ StartSession("knowledge_graph", 0, n, "map")
    \/ \E c \in BOOLEAN : EvaluateReturns("knowledge_graph", c)

SpecEarly == InitEarly /\ [][NextEarly]_vars

\* identify_mislabeled_items called on an evaluator
InitDetector ==
    /\ program = "fluid_evaluation"
    /\ test_items \in FluidPools
    /\ o_items = <<>>
    /\ IdleEvaluator
    /\ IdleOcr
    /\ IdleDetector
    /\ IdleSelector
    /\ IdleEstimator

NextDetector ==
    \E r \in DetectorInputs, t \in Thresholds : IdentifyMislabeled(r, t)

SpecDetector == InitDetector /\ [][NextDetector]_vars

\* the selectors called on a pool, an ability and a set of used ids
InitSelect ==
    /\ program = "none"
    /\ test_items = <<>>
    /\ o_items = <<>>
    /\ IdleEvaluator
    /\ IdleOcr
    /\ IdleDetector
    /\ \/ /\ q_fn = "FluidEvaluator.select_next_item"
          /\ q_pool \in FluidPools \cup {TwinPool}
       \/ /\ q_fn = "OCRIRTBenchmark._select_next_item"
          /\ q_pool \in {sorted_by_difficulty(pool) : pool \in OcrPools}
    /\ q_theta \in Thetas
    /\ q_used \in {IdsAt(q_pool, S, 1) : S \in SUBSET (1..Len(q_pool))}
    /\ q_out = <<>>
    /\ IdleEstimator

NextSelect == CallSelectNextItem \/ CallOcrSelectNextItem

SpecSelect == InitSelect /\ [][NextSelect]_vars

\* the responses of the sessions in the form identify_mislabeled_items takes
SessionResponses ==
    [m \in Methods |->
        [k \in 1..Len(s_responses[m]) |->
            [id |-> test_items[s_responses[m][k].item].id,
             correct |-> s_responses[m][k].correct]]]

AllSessionsDone == \A m \in Methods : s_pc[m] = "done"

NoSessionRunning == \A m \in Methods : s_pc[m] # "evaluate"

\* the demo script: the sessions of the methods one after the other, then
\* identify_mislabeled_items on their responses
InitAfter ==
    /\ program = "fluid_evaluation"
    /\ test_items = SubSeq(create_test_dataset, 1, Min(MaxPool, Len(create_test_dataset)))
    /\ o_items = <<>>
    /\ IdleEvaluator
    /\ IdleOcr
    /\ IdleDetector
    /\ IdleSelector
    /\ IdleEstimator

NextAfter ==
    \/ \E m \in Methods, n \in {MaxN - 2, MaxN} :
           NoSessionRunning /\ StartSession(m, 0, n, "map")
    \/ \E m \in Methods, c \in BOOLEAN : EvaluateReturns(m, c)
    \/ \E t \in Thresholds :
           AllSessionsDone /\ IdentifyMislabeled(SessionResponses, t)

SpecAfter == InitAfter /\ [][NextAfter]_vars

\* the pool of the runs in which a session shares the evaluator
SharedPool == SubSeq(create_test_dataset, 1, Min(MaxPool, Len(create_test_dataset)))

\* one session, with identify_mislabeled_items called on the responses there
\* are so far at any point of it: before it, while it is suspended in its
\* await, after it
InitSerial ==
    /\ program = "fluid_evaluation"
    /\ test_items = SharedPool
    /\ o_items = <<>>
    /\ IdleEvaluator
    /\ IdleOcr
    /\ IdleDetector
    /\ IdleSelector
    /\ IdleEstimator

NextSerial ==
    \/ \E n \in {MaxN - 2, MaxN}, e \in Modes : StartSession("knowledge_graph", 0, n, e)
    \/ \E c \in BOOLEAN : EvaluateReturns("knowledge_graph", c)
    \/ \E t \in Thresholds : IdentifyMislabeled(SessionResponses, t)

SpecSerial == InitSerial /\ [][NextSerial]_vars

\* the sessions of the methods as concurrent tasks on one evaluator: each runs
\* from one await to the next, in any interleaving
InitConcurrent ==
    /\ program = "fluid_evaluation"
    /\ test_items = SharedPool
    /\ o_items = <<>>
    /\ IdleEvaluator
    /\ IdleOcr
    /\ IdleDetector
    /\ IdleSelector
    /\ IdleEstimator

NextConcurrent ==
    \/ \E m \in Methods, n \in {MaxN - 2, MaxN} : StartSession(m, 0, n, "map")
    \/ \E m \in Methods, c \in BOOLEAN : EvaluateReturns(m, c)
    \/ \E m \in Methods : EvaluateRaises(m)

SpecConcurrent == InitConcurrent /\ [][NextConcurrent]_vars

\* estimate_ability called twice on the same responses, with a detector run
\* on these responses, a session of one item, or nothing in between
InitEstimate ==
    /\ program \in {"fluid_evaluation", "ocr_irt_benchmark"}
    /\ test_items = (IF program = "fluid_evaluation" THEN create_test_dataset ELSE <<>>)
    /\ o_items = (IF program = "ocr_irt_benchmark" THEN load_dataset(OcrDataset) ELSE <<>>)
    /\ IdleEvaluator
    /\ IdleOcr
    /\ IdleDetector
    /\ IdleSelector
    /\ e_in \in [responses : EstimateInputs(Len(test_items) + Len(o_items)),
                 mode : IF program = "fluid_evaluation" THEN Modes ELSE {"map"}]
    /\ e_out = <<>>
    /\ IdleProbability

NextEstimate ==
    \/ CallEstimateAbility
    \/ CallOcrEstimateAbility
    \/ \E t \in Thresholds : Len(e_out) = 1 /\ IdentifyMislabeled(EstimatedResponses, t)
    \/ Len(e_out) = 1 /\ StartSession("knowledge_graph", 0, 1, "map")
    \/ \E c \in BOOLEAN : EvaluateReturns("knowledge_graph", c)
    \/ Len(e_out) = 1 /\ OcrStart(1)
    \/ \E c \in BOOLEAN : OcrEvaluateReturns(c, "score")

SpecEstimate == InitEstimate /\ [][NextEstimate]_vars

\* benchmark.load_dataset() on a dataset file holding `data`
LoadDataset(data) ==
    /\ program = "ocr_irt_benchmark"
    /\ o_pc = "idle"
    /\ o_items = <<>>
    /\ o_items' = load_dataset(data)
    /\ UNCHANGED <<program, o_pc, o_num, o_sorted, o_i, o_item, o_details,
                   o_responses, o_ability, o_se, o_result,
                   fluidVars, detVars, selVars, estVars>>

\* an OCRIRTBenchmark as constructed: load_dataset on an incomplete dataset
\* file, then run_benchmark
InitLoad ==
    /\ program = "ocr_irt_benchmark"
    /\ test_items = <<>>
    /\ o_items = <<>>
    /\ IdleEvaluator
    /\ IdleOcr
    /\ IdleDetector
    /\ IdleSelector
    /\ IdleEstimator

NextLoad ==
    \/ \E n \in 1..Len(IncompleteDataset) : LoadDataset(SubSeq(IncompleteDataset, 1, n))
    \/ \E n \in 0..MaxN : OcrStart(n)
    \/ \E c \in BOOLEAN, d \in {"score", "error"} : OcrEvaluateReturns(c, d)

SpecLoad == InitLoad /\ [][NextLoad]_vars

\* one session over the bank of two items
InitScenario ==
    /\ program = "fluid_evaluation"
    /\ test_items = ScenarioBank
    /\ o_items = <<>>
    /\ IdleEvaluator
    /\ IdleOcr
    /\ IdleDetector
    /\ IdleSelector
    /\ IdleEstimator

NextScenario ==
    \/ \E m \in Methods, a \in ScenarioAbilities, n \in 0..MaxN, e \in Modes :
           NoSessionStarted /\ StartSession(m, a, n, e)
    \/ \E m \in Methods, c \in BOOLEAN : EvaluateReturns(m, c)

SpecScenario == InitScenario /\ [][NextScenario]_vars

\* one session over the bank of the three hardest items
InitHard ==
    /\ program = "fluid_evaluation"
    /\ test_items = HardBank
    /\ o_items = <<>>
    /\ IdleEvaluator
    /\ IdleOcr
    /\ IdleDetector
    /\ IdleSelector
    /\ IdleEstimator

NextHard ==
    \/ \E m \in Methods, a \in StartAbilities, n \in 0..MaxN, e \in Modes :
           NoSessionStarted /\ StartSession(m, a, n, e)
    \/ \E m \in Methods, c \in BOOLEAN : EvaluateReturns(m, c)

SpecHard == InitHard /\ [][NextHard]_vars

\* one call of probability_correct
InitProbability ==
    /\ program \in {"fluid_evaluation", "ocr_irt_benchmark"}
    /\ test_items = <<>>
    /\ o_items = <<>>
    /\ IdleEvaluator
    /\ IdleOcr
    /\ IdleDetector
    /\ IdleSelector
    /\ e_in = [responses |-> <<>>, mode |-> "map"]
    /\ e_out = <<>>
    /\ p_in \in [ability : FarAbilities, difficulty : Difficulties,
                  discrimination : Discriminations]
    /\ p_out = <<>>

NextProbability ==
    \/ CallProbabilityCorrect
    \/ CallOcrProbabilityCorrect

SpecProbability == InitProbability /\ [][NextProbability]_vars

----------------------------------------------------------------------------
(* Properties *)

NoDuplicates(s) == \A i, j \in 1..Len(s) : i # j => s[i] # s[j]

NMaxOf(m) == s_args[m].n_max

Administered(m) == Len(s_administered[m])

Available(m) == available_items(test_items, s_administered[m])

\* C1: a session never administers more than n_max items, in any state and in
\* the returned record; run_benchmark never records more than num_items responses
C1_NeverExceedsNMax ==
    /\ \A m \in Methods :
          /\ Administered(m) <= NMaxOf(m)
          /\ Len(s_responses[m]) <= NMaxOf(m)
          /\ s_result[m] # <<>> =>
                /\ s_result[m][1].items_administered <= NMaxOf(m)
                /\ Len(s_result[m][1].administered_items) <= NMaxOf(m)
    /\ Len(o_responses) <= o_num
    /\ o_result # <<>> => Len(o_result[1].responses) <= o_num

\* a session that ended at n_max with items of the pool still available
C1_Witness ==
    \E m \in Methods :
        /\ s_pc[m] = "done"
        /\ s_exit[m] = "n_max"
        /\ NMaxOf(m) >= 1
        /\ Administered(m) = NMaxOf(m)
        /\ Available(m) # <<>>

\* C2: no item id occurs twice in the administered list of a session, for
\* fluid_benchmarking and for run_benchmark (warm start included)
C2_NoItemTwice ==
    /\ \A m \in Methods : NoDuplicates(s_administered[m])
    /\ NoDuplicates([k \in 1..Len(o_responses) |-> o_responses[k].item.id])

\* C3: a selector never returns an item whose id is administered, and gives
\* the 'no item' signal (None, or a rejection) exactly when every id is used
C3_SelectorNeverReselects ==
    q_out # <<>> =>
        LET chosen == q_out[1]
            all_used == \A k \in 1..Len(q_pool) : q_pool[k].id \in SeqToSet(q_used)
        IN  /\ chosen > 0 => q_pool[chosen].id \notin SeqToSet(q_used)
            /\ chosen <= 0 <=> all_used

\* C4: when the evaluate call raises, the session is not aborted: it goes on
\* to a later iteration or ends with a result record
C4_EvaluateFailureSkipped ==
    [][\A m \in Methods :
          EvaluateRaises(m) =>
              \/ s_pc'[m] = "evaluate"
              \/ s_pc'[m] = "done" /\ s_result'[m] # <<>>]_vars

\* C5: a failed evaluation is recorded neither as correct nor as incorrect:
\* it adds no response to the history the ability is estimated on
C5_FailureNotRecorded ==
    [][OcrEvaluateReturns(FALSE, "error") => o_responses' = o_responses]_vars

\* a session that ended before n_max and before the pool was exhausted
StoppedEarly(m) ==
    /\ s_pc[m] = "done"
    /\ Administered(m) < NMaxOf(m)
    /\ Available(m) # <<>>

\* after an update the session stops early exactly when the standard error is
\* below the threshold and at least `floor` items are administered
EarlyStopRule(floor) ==
    \A m \in Methods :
        LET confident == /\ s_ability[m].standard_error < EarlyStopThreshold
                         /\ Administered(m) >= floor
        IN  /\ s_pc[m] = "evaluate" => ~confident
            /\ StoppedEarly(m) => confident

\* C6 as claimed: the session stops early exactly when, after the update,
\* standard_error < 0.3 and at least 10 items are administered
C6_EarlyStopAtTen == EarlyStopRule(10)

\* C6 amended: the session stops early exactly when, after the update,
\* standard_error < 0.3 and at least 11 items are administered (index i >= 10)
C6_EarlyStopAtEleven == EarlyStopRule(EarlyStopIndex + 1)

\* an early stop with exactly 11 items administered
C6_Witness ==
    \E m \in Methods :
        /\ StoppedEarly(m)
        /\ s_exit[m] = "early_stop"
        /\ Administered(m) = EarlyStopIndex + 1

\* C7: pool exhaustion is a normal end: with a pool smaller than the requested
\* count, the empty pool included, the runner does not raise and returns a record
C7_ExhaustionReturns ==
    /\ \A m \in Methods :
          (s_pc[m] \notin {"idle", "evaluate", "cancelled"}
             /\ s_exit[m] # "EvaluationFailure"
             /\ Cardinality({test_items[k].id : k \in 1..Len(test_items)}) < NMaxOf(m))
          => s_pc[m] = "done" /\ s_result[m] # <<>>
    /\ (o_pc \notin {"idle", "evaluate"} /\ Len(o_items) < o_num)
          => o_pc = "done" /\ o_result # <<>>

\* C8: a cancelled session still returns a record with the ability estimate,
\* standard error and administered items accumulated so far
C8_CancelledReturnsPartial ==
    \A m \in Methods :
        s_pc[m] = "cancelled" =>
            /\ s_result[m] # <<>>
            /\ s_result[m][1].ability_estimate = s_ability[m]
            /\ s_result[m][1].administered_items = s_administered[m]

\* the responses of the last call that are about pool item k: (method, position)
ResponsesTo(k) ==
    UNION {{<<m, j>> : j \in {i \in 1..Len(d_in.responses[m]) :
                                d_in.responses[m][i].id = d_before[k].id}}
           : m \in Methods}

\* |predicted P(correct) - actual| of one response to pool item k
AbsError(k, r) ==
    Abs(Logistic2PL(AbilityOf(abilities, r[1]).theta, d_before[k].difficulty,
                    d_before[k].discrimination)
        - (IF d_in.responses[r[1]][r[2]].correct THEN Q ELSE 0))

RECURSIVE TotalAbsError(_, _)
TotalAbsError(k, R) ==
    IF R = {} THEN 0
    ELSE LET r == CHOOSE x \in R : TRUE
         IN  AbsError(k, r) + TotalAbsError(k, R \ {r})

\* pool items with a response whose mean absolute error is above the threshold
AboveThreshold ==
    {k \in 1..Len(d_before) :
        /\ ResponsesTo(k) # {}
        /\ TotalAbsError(k, ResponsesTo(k)) > d_in.threshold * Cardinality(ResponsesTo(k))}

\* C9: identify_mislabeled_items returns exactly the pool items that have a
\* response and a discrepancy strictly above the threshold, each once; an item
\* without responses is never returned and the call does not raise
C9_ExactlyTheDiscrepantItems ==
    d_calls > 0 =>
        /\ ~d_raised
        /\ SeqToSet(d_out) = AboveThreshold
        /\ Len(d_out) = Cardinality(AboveThreshold)
        /\ \A k \in SeqToSet(d_out) : ResponsesTo(k) # {}

\* a call in which one item has no response, one is answered but not flagged,
\* and one is flagged
C9_Witness ==
    /\ d_calls > 0
    /\ d_out # <<>>
    /\ \E k \in 1..Len(d_before) : ResponsesTo(k) = {}
    /\ \E k \in 1..Len(d_before) : ResponsesTo(k) # {} /\ k \notin SeqToSet(d_out)

\* the discrepancy the last call computed for pool item k
DiscrepancyInCall(k) ==
    CeilDiv(TotalAbsError(k, ResponsesTo(k)), Cardinality(ResponsesTo(k)))

\* C10: the returned list is in non-increasing order of the discrepancy of
\* that call, whatever mislabeled_probability the items had before
C10_SortedByDiscrepancy ==
    d_calls > 0 =>
        \A i, j \in 1..Len(d_out) :
            i < j => DiscrepancyInCall(d_out[i]) >= DiscrepancyInCall(d_out[j])

\* a second call that returns two items against their pool order, one of
\* which carried another mislabeled_probability from the first call
C10_Witness ==
    /\ d_calls >= 2
    /\ Len(d_out) >= 2
    /\ d_out[1] > d_out[2]
    /\ DiscrepancyInCall(d_out[1]) > DiscrepancyInCall(d_out[2])
    /\ \E k \in SeqToSet(d_out) :
          d_before[k].mislabeled_probability \notin {0, DiscrepancyInCall(k)}

\* the ability estimates the completed sessions produced, per method
SessionAbilities == [m \in Methods |-> s_result[m][1].ability_estimate]

\* C11: when identify_mislabeled_items runs after the sessions of the methods
\* have completed, the theta it predicts each method's responses at is the
\* final theta of that method's session
C11_PredictedAtSessionTheta ==
    [][(AllSessionsDone /\ d_calls' = d_calls + 1) =>
          /\ \A m \in Methods :
                AbilityOf(abilities, m).theta = SessionAbilities[m].theta
          /\ test_items' = identify_mislabeled_items(test_items, SessionAbilities,
                                                     d_in'.responses,
                                                     d_in'.threshold).items]_vars

\* a step of a fluid_benchmarking coroutine
SessionStep ==
    \E m \in Methods :
        \/ s_pc'[m] # s_pc[m]
        \/ s_responses'[m] # s_responses[m]
        \/ s_administered'[m] # s_administered[m]

\* C12: no step of a session changes the pool, any field of any item,
\* self.abilities or self.response_history
C12_SessionChangesNoSharedState ==
    [][SessionStep => UNCHANGED <<test_items, abilities, response_history>>]_vars

\* a session that ran to its end on a pool the detector had written to
C12_Witness ==
    /\ s_pc["knowledge_graph"] = "done"
    /\ Len(s_responses["knowledge_graph"]) >= 2
    /\ \E k \in 1..Len(test_items) : test_items[k].mislabeled_probability > 0
    /\ response_history = <<>>
    /\ abilities = NoAbilities

\* one session run alone on the pool `items`, from loop index i on, fed the
\* evaluate outcomes in `outcomes`: where it stands when they are used up
RECURSIVE SoloFrom(_, _, _, _, _, _, _, _)
SoloFrom(items, n_max, mode, outcomes, i, responses, administered, ability) ==
    LET here(pc, next) == [pc |-> pc, next |-> next, responses |-> responses,
                           administered |-> administered, ability |-> ability]
        next_item == IF i < n_max
                     THEN select_next_item(items, ability.theta, administered)
                     ELSE 0
    IN  IF next_item = 0 THEN here("done", 0)
        ELSE IF next_item < 0 THEN here("raised", 0)
        ELSE IF Len(responses) >= Len(outcomes) THEN here("evaluate", next_item)
        ELSE LET answered == Append(responses,
                                    [item |-> next_item,
                                     correct |-> outcomes[Len(responses) + 1]])
                 ids == Append(administered, items[next_item].id)
                 estimate == estimate_ability(items, answered, mode)
                 updated == [method |-> estimate.method, theta |-> estimate.theta,
                             standard_error |-> estimate.standard_error,
                             num_items_tested |-> estimate.num_items_tested]
             IN  IF estimate.raised
                 THEN [pc |-> "raised", next |-> next_item, responses |-> answered,
                       administered |-> ids, ability |-> ability]
                 ELSE IF updated.standard_error < EarlyStopThreshold /\ i >= EarlyStopIndex
                 THEN [pc |-> "done", next |-> next_item, responses |-> answered,
                       administered |-> ids, ability |-> updated]
                 ELSE SoloFrom(items, n_max, mode, outcomes, i + 1, answered, ids, updated)

\* the session of method m run alone on `items` with the outcomes it has had
Solo(m, items) ==
    SoloFrom(items, s_args[m].n_max, s_args[m].estimation_method,
             [k \in 1..Len(s_responses[m]) |-> s_responses[m][k].correct],
             0, <<>>, <<>>, ExtractionAbility(m, s_args[m].start_ability))

\* the session of method m stands where the session run alone on `items` stands
SameAsSolo(m, items) ==
    s_pc[m] # "idle" =>
        \E solo \in {Solo(m, items)} :
            /\ s_administered[m] = solo.administered
            /\ s_responses[m] = solo.responses
            /\ s_ability[m] = solo.ability
            /\ s_pc[m] = "evaluate" => solo.pc = "evaluate" /\ s_next[m] = solo.next
            /\ s_pc[m] = "done" =>
                  /\ solo.pc = "done"
                  /\ s_result[m] = <<SessionResult(m, solo.responses,
                                                   solo.administered, solo.ability)>>

\* C13: whatever the interleaving of the sessions of the two methods, each
\* has the administered items, responses and ability estimate of the same
\* session run alone with the same evaluate outcomes
C13_ConcurrentSameAsAlone ==
    \A m \in Methods : SameAsSolo(m, test_items)

\* both sessions suspended in their await at the same time, each with a
\* response behind it, on different items
C13_Witness ==
    /\ \A m \in Methods : s_pc[m] = "evaluate" /\ Len(s_responses[m]) >= 1
    /\ s_administered["knowledge_graph"] # s_administered["langstruct"]
    /\ s_next["knowledge_graph"] # s_next["langstruct"]

\* what a session reads of the pool: its order and, of every item, the id,
\* the difficulty and the discrimination
ReadBySessions(items) ==
    [k \in 1..Len(items) |->
        <<items[k].id, items[k].difficulty, items[k].discrimination>>]

\* C14: identify_mislabeled_items run at any point of a session leaves what
\* the session reads of the pool as it was, and the session has the
\* selections, estimates and result of the same session on the untouched pool
C14_DetectorWriteInvisible ==
    /\ ReadBySessions(test_items) = ReadBySessions(SharedPool)
    /\ SameAsSolo("knowledge_graph", SharedPool)

\* a completed session during which the detector ran, on fewer responses than
\* the session ended with, and flagged an item
C14_Witness ==
    /\ s_pc["knowledge_graph"] = "done"
    /\ d_calls > 0
    /\ d_out # <<>>
    /\ Len(d_in.responses["knowledge_graph"]) >= 1
    /\ Len(d_in.responses["knowledge_graph"]) < Len(s_responses["knowledge_graph"])
    /\ test_items # SharedPool

\* the items of the pool of the selector call whose id is not administered
NotAdministered == {k \in 1..Len(q_pool) : q_pool[k].id \notin SeqToSet(q_used)}

\* a^2 * p * (1 - p) of item k of that pool at the theta of the call
InfoAt(k) ==
    Information(q_pool[k].discrimination,
                Logistic2PL(q_theta, q_pool[k].difficulty, q_pool[k].discrimination))

InThird(pool, item, i) ==
    LET ordered == sorted_by_difficulty(pool)
        n == Len(ordered)
    IN  \E p \in 1..n :
            /\ ordered[p] = item
            /\ (i - 1) * n <= 3 * (p - 1)
            /\ 3 * (p - 1) < i * n

\* C16: the first three selections of every session are spread over the
\* difficulty range: the i-th of them (i = 1, 2, 3) is taken from the i-th
\* third of the pool ordered by difficulty, not by maximum information
C16_WarmStartFirstThree ==
    /\ \A m \in Methods :
          \A i \in 1..Min(WarmStart, Len(s_responses[m])) :
              InThird(test_items, test_items[s_responses[m][i].item], i)
    /\ \A i \in 1..Min(WarmStart, Len(o_responses)) :
          InThird(o_items, o_responses[i].item, i)

\* sum of a^2 * p * (1 - p) over the responses of e_in at `theta`, on the
\* items of `pool`
FisherInformationAt(pool, theta) ==
    LET term(k) ==
            LET item == pool[e_in.responses[k].item]
            IN  Information(item.discrimination,
                            Logistic2PL(theta, item.difficulty, item.discrimination))
        sum[k \in 0..Len(e_in.responses)] == IF k = 0 THEN 0 ELSE sum[k - 1] + term(k)
    IN  sum[Len(e_in.responses)]

\* the standard error goes with the Fisher information: +infinity when the
\* information is not positive, finite and not negative otherwise
StandardErrorGoesWith(information, standard_error) ==
    IF information <= 0 THEN standard_error = Infinity
    ELSE standard_error >= 0 /\ standard_error < Infinity

\* C17: on a non-empty response list estimate_ability raises nothing and
\* returns standard_error = +infinity when the Fisher information at the final
\* theta is <= 0, a finite standard_error >= 0 otherwise
C17_InfiniteWithoutInformation ==
    e_in.responses # <<>> =>
        \A k \in 1..Len(e_out) :
            IF program = "fluid_evaluation"
            THEN /\ ~e_out[k].raised
                 /\ StandardErrorGoesWith(FisherInformationAt(test_items, e_out[k].theta),
                                          e_out[k].standard_error)
            ELSE StandardErrorGoesWith(FisherInformationAt(o_items, e_out[k].ability),
                                       e_out[k].standard_error)

\* C18: on an empty response list estimate_ability raises nothing and returns
\* theta = 0.0 and standard_error = 1.0 (FluidEvaluator, in both modes, with 0
\* items tested; OCRIRTBenchmark)
C18_EmptyListConvention ==
    e_in.responses = <<>> =>
        \A k \in 1..Len(e_out) :
            IF program = "fluid_evaluation"
            THEN /\ ~e_out[k].raised
                 /\ e_out[k].theta = 0
                 /\ e_out[k].standard_error = Q
                 /\ e_out[k].num_items_tested = 0
            ELSE /\ e_out[k].ability = 0
                 /\ e_out[k].standard_error = Q

\* estimate_ability has returned on the empty list
C18_Witness ==
    /\ e_in.responses = <<>>
    /\ Len(e_out) = 2
    /\ \/ program = "ocr_irt_benchmark"
       \/ e_in.mode = "ml"


\* C19: two estimate_ability calls on the same responses and mode return the
\* same estimate (theta, standard error, and whether the call raised),
\* whatever session steps or detector runs happened between the two calls
C19_SameResponsesSameEstimate ==
    Len(e_out) = 2 => e_out[1] = e_out[2]

\* both calls made on a non-empty list, with a detector run that flagged an
\* item and a session step between them
C19_Witness ==
    /\ Len(e_out) = 2 /\ e_in.responses # <<>>
    /\ d_calls > 0 /\ d_out # <<>>
    /\ s_responses["knowledge_graph"] # <<>>


\* number of responses marked correct
MarkedCorrect(responses) ==
    Cardinality({k \in 1..Len(responses) : responses[k].correct})

OcrAdministeredIds ==
    {o_responses[k].item.id : k \in 1..Len(o_responses)}
    \cup (IF o_pc = "evaluate" THEN {o_sorted[o_item].id} ELSE {})

\* C21: an item of the dataset file that lacks a difficulty is rejected by
\* load_dataset: it is not among the loaded items, and no session administers
\* it with default parameters
C21_InvalidItemRejected ==
    /\ \A k \in 1..Len(o_items) : o_items[k].id \notin LacksDifficulty(IncompleteDataset)
    /\ OcrAdministeredIds \cap LacksDifficulty(IncompleteDataset) = {}

\* C22: probability_correct never raises, and where exp would overflow the
\* value returned is still strictly between 0 and 1.  (At the other inputs
\* the value is known to 1/1000 only, which does not tell 1.0 from 0.9999.)
C22_ClampedNeverRaises ==
    \A k \in 1..Len(p_out) :
        /\ p_out[k] # -1
        /\ ExpOverflows(p_in.ability, p_in.difficulty, p_in.discrimination)
              => 0 < p_out[k] /\ p_out[k] < Q

AlwaysTrue(m) == \A k \in 1..Len(s_responses[m]) : s_responses[m][k].correct

\* the session of m is at a selection made with both items of the bank available
BothAvailable(m) == s_pc[m] = "evaluate" /\ s_administered[m] = <<>>

Selected(m) == test_items[s_next[m]].id

\* a session with every answer correct ends with theta > 0 once it has
\* administered an item
EndsAboveZero ==
    \A m \in Methods :
        (s_pc[m] = "done" /\ s_responses[m] # <<>> /\ AlwaysTrue(m))
            => s_ability[m].theta > 0 /\ s_result[m][1].final_ability > 0

\* C23 as stated: with the bank [easy-1, hard-1] and every answer correct the
\* session ends with theta > 0, and a selection made at an ability above 0 with
\* both items available returns hard-1
C23_HardPreferredAboveZero ==
    /\ EndsAboveZero
    /\ \A m \in Methods :
          (BothAvailable(m) /\ s_ability[m].theta > 0)
              => Selected(m) = <<"hard", "1">>

\* C23 amended: the same, for a selection made at an ability above 0 and
\* within the documented range of theta (at most 3.0)
C23_HardPreferredInRange ==
    /\ EndsAboveZero
    /\ \A m \in Methods :
          (BothAvailable(m) /\ s_ability[m].theta > 0 /\ s_ability[m].theta <= 3000)
              => Selected(m) = <<"hard", "1">>

\* a session started above 0 that took hard-1 first, then easy-1, every answer
\* correct, and ended with theta > 0
C23_Witness ==
    \E m \in Methods :
        /\ s_pc[m] = "done" /\ AlwaysTrue(m)
        /\ s_args[m].start_ability > 0
        /\ s_administered[m] = << <<"hard", "1">>, <<"easy", "1">> >>
        /\ s_ability[m].theta > 0

\* the Newton-Raphson loop of the estimate_ability call made on e_in
EstimateLoop ==
    IF program = "fluid_evaluation"
    THEN NewtonRaphson(test_items, e_in.responses, e_in.mode, 0, 0)
    ELSE OcrNewtonRaphson([k \in 1..Len(e_in.responses) |->
                              [item |-> o_items[e_in.responses[k].item],
                               correct |-> e_in.responses[k].correct]], 0, 0, 0)

\* the loop of the call ran, which FluidEvaluator skips on an empty list, and
\* nothing but estimate_ability has been called since
LoopRan ==
    /\ Len(e_out) >= 1
    /\ program = "fluid_evaluation" => e_in.responses # <<>>
    /\ d_calls = 0
    /\ s_pc["knowledge_graph"] = "idle"
    /\ o_pc = "idle"

\* C24: the Newton-Raphson loop runs at most 20 iterations, and when it stops
\* before them it is at an iteration whose update is below 1e-4 in absolute
\* value (or, in FluidEvaluator, because probability_correct raised)
C24_StopsAtToleranceOrCap ==
    LoopRan =>
        LET loop == EstimateLoop
        IN  /\ loop.iterations <= MaxIterations
            /\ loop.break => Converged(loop.update)
            /\ loop.iterations < MaxIterations =>
                   \/ loop.break
                   \/ program = "fluid_evaluation" /\ loop.raised

AfterSelection(m) == s_pc[m] \in {"evaluate", "cancelled", "done"}

\* C26: a selection follows the update made on the response before it: once a
\* response is recorded the estimate held is the one computed from exactly the
\* responses recorded, num_items_tested = len(responses) = len(administered),
\* and the item awaited is the one selected at that estimate; run_benchmark
\* selects its items after the third at the estimate of all its responses
C26_SelectionUsesLatestEstimate ==
    /\ \A m \in Methods :
          (AfterSelection(m) /\ s_responses[m] # <<>>) =>
              LET estimate == estimate_ability(test_items, s_responses[m],
                                               s_args[m].estimation_method)
              IN  /\ s_ability[m].theta = estimate.theta
                  /\ s_ability[m].standard_error = estimate.standard_error
                  /\ s_ability[m].num_items_tested = Len(s_responses[m])
                  /\ Len(s_responses[m]) = Len(s_administered[m])
                  /\ s_pc[m] = "evaluate" =>
                        /\ s_i[m] = Len(s_responses[m])
                        /\ s_next[m] = select_next_item(test_items, s_ability[m].theta,
                                                        s_administered[m])
    /\ (o_pc \in {"evaluate", "done"} /\ o_responses # <<>>) =>
          /\ o_ability = ocr_estimate_ability(o_responses).ability
          /\ o_pc = "evaluate" =>
                /\ o_i = Len(o_responses)
                /\ o_i >= WarmStart =>
                      o_item = ocr_select_next_item(o_sorted, o_ability,
                                                    OcrUsedIds(o_responses))

\* a second selection, made at an estimate that is not the average ability and
\* that selects another item than the average ability does
C26_Witness ==
    \E m \in Methods :
        /\ s_pc[m] = "evaluate"
        /\ Len(s_responses[m]) = 1
        /\ s_ability[m].num_items_tested = 1
        /\ s_ability[m].theta # 0
        /\ s_next[m] # select_next_item(test_items, 0, s_administered[m])

\* C27: the estimate a session holds, and the one in its result, carries the
\* extraction_method the session was started for, at the start and after every
\* update
C27_EstimateOwnedByMethod ==
    \A m \in Methods :
        /\ s_ability[m].method = m
        /\ s_result[m] # <<>> => s_result[m][1].ability_estimate.method = m

\* every evaluate call of the session of m has returned
EvaluationsReturned(m) == s_exit[m] \notin {"EvaluationFailure", "CancelledError"}

\* C28: a session whose evaluate calls all return is never left otherwise than
\* at its terminal state, entered because the pool is exhausted, n_max is
\* reached or the early stop applies, after at most min(n_max, number of
\* distinct item ids) administrations
C28_EndsForOneOfThreeReasons ==
    \A m \in Methods :
        (s_pc[m] \notin {"idle", "evaluate"} /\ EvaluationsReturned(m)) =>
            /\ s_pc[m] = "done"
            /\ s_exit[m] \in {"exhausted", "n_max", "early_stop"}
            /\ Administered(m) <= NMaxOf(m)
            /\ Administered(m) <=
                  Cardinality({test_items[k].id : k \in 1..Len(test_items)})

----------------------------------------------------------------------------
(* Frame of identify_mislabeled_items *)

\* pool items the last call returned
Returned == SeqToSet(d_out)

\* C29: identify_mislabeled_items writes nothing but the mislabeled_probability
\* of the items it returns: id, difficulty, discrimination and pool order of
\* every item are as before the call, and an item it does not return keeps the
\* mislabeled_probability it had before the call, a value set by an earlier
\* call included
C29_WritesOnlyReturnedItems ==
    (d_calls > 0 /\ ~d_raised) =>
        /\ Len(test_items) = Len(d_before)
        /\ \A k \in 1..Len(d_before) :
               /\ test_items[k].id = d_before[k].id
               /\ test_items[k].difficulty = d_before[k].difficulty
               /\ test_items[k].discrimination = d_before[k].discrimination
               /\ k \notin Returned =>
                      test_items[k].mislabeled_probability
                          = d_before[k].mislabeled_probability

\* a second call that returns one item and not another, the one not returned
\* carrying the value an earlier call wrote
C29_Witness ==
    /\ d_calls = 2
    /\ ~d_raised
    /\ \E k, j \in 1..Len(d_before) :
           /\ k \notin Returned
           /\ d_before[k].mislabeled_probability > 0
           /\ test_items[k].mislabeled_probability = d_before[k].mislabeled_probability
           /\ j \in Returned
           /\ test_items[j].mislabeled_probability # d_before[j].mislabeled_probability

\* the step is a second call with the responses and threshold of the first
\* (the abilities are those of the first: no detector call changes them)
RepeatedCall ==
    /\ d_calls = 1
    /\ d_calls' = 2
    /\ d_in' = d_in
    /\ abilities' = abilities

\* C30: identify_mislabeled_items is idempotent: a second call with the same
\* responses, threshold and abilities returns the same items in the same
\* order and leaves every mislabeled_probability as the first call left it
C30_SecondCallChangesNothing ==
    [][RepeatedCall => (/\ d_raised' = d_raised
                        /\ d_out' = d_out
                        /\ test_items' = test_items)]_vars

\* after a second call that returned two items, the items it returned being
\* those the first call had written to, with the values it computes again
C30_Witness ==
    /\ d_calls = 2
    /\ ~d_raised
    /\ Len(d_out) >= 2
    /\ test_items = d_before
    /\ Returned = {k \in 1..Len(d_before) : d_before[k].mislabeled_probability > 0}
    /\ \A k \in Returned : d_before[k].mislabeled_probability = DiscrepancyInCall(k)

====
